---- MODULE Spec2Model ----
(***************************************************************************)
(* Model of the slideshow assembly engine of music_slideshow:              *)
(* VideoCreator.create_slideshow and VideoCreator.add_text_overlay         *)
(* (src/utils/video_creator.py).                                           *)
(*                                                                         *)
(* Each method is a sequential procedure; the model follows it statement   *)
(* group by statement group with a program counter, so that every exit     *)
(* path (raise before the try, return inside the try, the except block)    *)
(* is a distinct run.  Library calls that touch the disk or a decoder      *)
(* (AudioFileClip, ImageClip, VideoFileClip, TextClip, write_videofile,    *)
(* ...) either succeed or raise.                                           *)
(*                                                                         *)
(* Time is counted in ticks of 1/Scale second, Scale being the least       *)
(* common multiple of 1..MaxImages, so that the division                   *)
(* audio_duration / len(image_paths) of the "auto" policy is exact in      *)
(* the integers.  Floating point rounding is not modelled.                 *)
(***************************************************************************)
EXTENDS Integers, Sequences, FiniteSets, TLC

\* ------------------------------------------------------------------ bounds

\* longest image_paths list handed to create_slideshow
MaxImages == 3

\* longest audio file on disk, in seconds
MaxAudio == 4

\* largest fixed duration_per_image a caller passes, in seconds
MaxFixed == 2

\* ------------------------------------------------------- program constants

\* VIDEO_CONFIG["duration_per_image"], in seconds
DefaultDurationPerImage == 5

\* IMAGE_CONFIG["max_images"] of config.py
ConfiguredMaxImages == 8

\* ------------------------------------------------------------- time units

RECURSIVE Gcd(_, _)
Gcd(a, b) == IF b = 0 THEN a ELSE Gcd(b, a % b)

RECURSIVE LcmUpTo(_)
LcmUpTo(n) == IF n <= 1 THEN 1 ELSE (LcmUpTo(n - 1) * n) \div Gcd(LcmUpTo(n - 1), n)

\* ticks per second
Scale == LcmUpTo(MaxImages)

Ticks(seconds) == seconds * Scale

Min(a, b) == IF a < b THEN a ELSE b

\* ------------------------------------------------------- the files on disk

\* The image paths a caller may name.  What os.path.exists and ImageClip do
\* with a path is a property of the file behind it.
ImagePaths == {"a.png", "b.png", "gone.png", "corrupt.png"}

\* os.path.exists(image_path)
ImageExists(p) == p # "gone.png"

\* ImageClip(image_path) decodes the file
ImageDecodes(p) == p \in {"a.png", "b.png"}

AudioPaths == {"song.mp3", "gone.mp3", "noise.mp3"}

\* os.path.exists(audio_path)
AudioExists(p) == p # "gone.mp3"

\* AudioFileClip(audio_path) decodes the file
AudioDecodes(p) == p = "song.mp3"

\* the duration_per_image argument: None, "auto" or a number of seconds
DurationArgs ==
    {[kind |-> "none", value |-> 0], [kind |-> "auto", value |-> 0]}
        \cup {[kind |-> "fixed", value |-> Ticks(d)] : d \in 0..MaxFixed}

\* ------------------------------------------------------------------ state

VARIABLES
    \* arguments of create_slideshow
    image_paths,        \* sequence of image paths
    audio_path,         \* path of the audio file
    policy,             \* the duration_per_image argument as passed
    target_resolution,  \* "None" or "set"
    \* environment
    audio_file_duration, \* seconds of audio in the file at audio_path
    resized_ok,          \* whether the installed ImageClip offers resized()
    \* locals of create_slideshow
    pc,                 \* position in the method
    duration_per_image, \* the local of that name, rebound at lines 37 and 59
    audio_duration,     \* audio_clip.duration at line 54, in ticks
    idx,                \* loop index of the for loop of line 71 (1-based)
    image_clips,        \* list of clips [src, path, duration]
    visual_total,       \* duration of the concatenated track (line 102)
    video_duration,     \* video_clip.duration
    audio_clip_duration, \* audio_clip.duration after line 113
    \* media handles
    opened,             \* handles opened so far
    released,           \* handles closed so far
    \* outcome
    failed_at,          \* where the exception caught at line 137 was raised
    file_written,       \* "no", "partial" or "complete": the file at output_path
    result,             \* what the caller of create_slideshow observes
    \* arguments of add_text_overlay
    video_path,         \* path of the video the captions go on
    text_list,          \* list of dicts with keys text, start_time, duration
    \* environment
    video_file_duration, \* seconds of video in the file at video_path
    \* locals of add_text_overlay
    ov_pc,              \* position in the method
    video_clip_duration, \* video_clip.duration
    text_idx,           \* loop index of the for loop of line 238 (1-based)
    text_clips,         \* list of text clips [src, text, start, duration, font]
    ov_output_path,     \* the local output_path
    ov_opened,          \* handles opened so far
    ov_released,        \* handles closed so far
    ov_failed_at,       \* where the exception caught at line 311 was raised
    ov_file_written,    \* "no", "partial" or "complete": the captioned file
    ov_result,          \* what the caller of add_text_overlay observes
    \* arguments of audio_to_video_pipeline
    max_images,         \* number of images asked for
    pl_duration,        \* the duration_per_image argument of the pipeline
    add_text,           \* the add_text_overlay argument
    use_beat_sync,      \* the use_beat_sync argument
    \* environment
    transcript_file,    \* "none", "stale" or "fresh": the newest transcript
                        \* file of this audio under output/transcribed
    \* locals of audio_to_video_pipeline and audio_to_images_pipeline
    pl_pc,              \* position in the pipeline
    transcript,         \* "unset", "" or "lyrics"
    pl_image_paths,     \* image_paths returned by audio_to_images_pipeline
    pl_video_path,      \* the local video_path of audio_to_video_pipeline
    pl_result,          \* what the caller of the pipeline observes
    prompt_results,     \* what generate_image gave for each prompt of the
                        \* last batch: a path or "None"
    beat_outcome,       \* what the beat analysis came to
    \* output naming of create_slideshow
    output_filename,    \* the output_filename argument, "None" when not given
    now,                \* the second in which the run takes place
    output_path,        \* the local output_path
    videos,             \* the videos in the output directory: [path, by]
    \* main.py: the command line and the shared configuration
    argv,               \* the parsed arguments of main
    image_config,       \* IMAGE_CONFIG["max_images"]: [present, value]
    \* main.py: locals of main and of process_audio_to_video
    m_pc,               \* position in main / process_audio_to_video
    m_text,             \* the transcription
    m_sentences,        \* the number of sentences
    m_image_paths,      \* the paths returned by _generate_images
    m_output_name,      \* output_name in _create_video
    m_call,             \* the call of create_slideshow by _create_video
    m_failed,           \* the step whose exception ended the run
    m_result,           \* what process_audio_to_video returns
    exit_code           \* the exit status of the process, "running" before

\* the state of add_text_overlay
overlay == <<video_path, text_list, video_file_duration, ov_pc,
             video_clip_duration, text_idx, text_clips, ov_output_path,
             ov_opened, ov_released, ov_failed_at, ov_file_written, ov_result>>

\* the state of main.py
cli == <<argv, image_config, m_pc, m_text, m_sentences, m_image_paths,
         m_output_name, m_call, m_failed, m_result, exit_code>>

\* the state of audio_to_video_pipeline
pipeline == <<max_images, pl_duration, add_text, use_beat_sync,
              transcript_file, pl_pc, transcript, pl_image_paths,
              pl_video_path, pl_result, prompt_results, beat_outcome>>

vars == <<image_paths, audio_path, policy, target_resolution,
          audio_file_duration, resized_ok, pc, duration_per_image,
          audio_duration, idx, image_clips, visual_total, video_duration,
          audio_clip_duration, opened, released, failed_at, file_written,
          result, overlay, pipeline, output_filename, now, output_path,
          videos, cli>>

\* the state of create_slideshow
slideshow == <<output_filename, now, output_path, videos,
               image_paths, audio_path, policy, target_resolution,
               audio_file_duration, resized_ok, pc, duration_per_image,
               audio_duration, idx, image_clips, visual_total, video_duration,
               audio_clip_duration, opened, released, failed_at, file_written,
               result>>

args == <<output_filename, now,
          image_paths, audio_path, policy, target_resolution,
          audio_file_duration, resized_ok>>

\* ------------------------------------------------------------- helpers

SeqsUpTo(S, n) == UNION {[1..k -> S] : k \in 0..n}

RECURSIVE SumDurations(_)
SumDurations(clips) ==
    IF clips = <<>> THEN 0
    ELSE Head(clips).duration + SumDurations(Tail(clips))

\* concatenate_videoclips(image_clips, method="compose").duration
concatenate_videoclips(clips) == SumDurations(clips)

\* Clip.subclip(0, t_end).duration for t_end >= 0
subclip(t_end) == t_end

\* line 59: duration_per_image = audio_duration / len(image_paths)
AutoDuration(a, paths) == a \div Len(paths)

\* mutant of set_duration: the clip keeps the configured default
set_duration_default(clip, d) ==
    [clip EXCEPT !.duration = Ticks(DefaultDurationPerImage)]

\* img_clip.set_duration(duration_per_image)
set_duration(clip, d) == [clip EXCEPT !.duration = d]

\* mutant of append: a path that already has a clip gets no second one
append_once(clips, clip) ==
    IF \E k \in 1..Len(clips) : clips[k].path = clip.path
    THEN clips
    ELSE Append(clips, clip)

\* line 90: image_clips.append(img_clip)
append(clips, clip) == Append(clips, clip)

\* mutant of ReconciledVideo: the comparison of line 108 reversed
ReconciledVideoReversed(v, a) == IF v < a THEN subclip(a) ELSE v

\* lines 108-110: video_clip.duration after the visual track is reconciled
ReconciledVideo(v, a) == IF v > a THEN subclip(a) ELSE v

\* mutant of ReconciledAudio: line 113 left out
ReconciledAudioKept(a, v) == a

\* line 113: audio_clip.subclip(0, video_clip.duration).duration
ReconciledAudio(a, v) == subclip(v)

\* the handles a list of clips holds
ClipHandles(clips) == {<<"image", clips[k].src>> : k \in 1..Len(clips)}

\* ------------------------------------------------------------------ Init

\* create_slideshow is called with any arguments, on any disk
SlideshowInit ==
    /\ image_paths \in SeqsUpTo(ImagePaths, MaxImages)
    /\ audio_path \in AudioPaths
    /\ policy \in DurationArgs
    /\ target_resolution \in {"None", "set"}
    /\ audio_file_duration \in
           (IF AudioDecodes(audio_path) THEN 1..MaxAudio ELSE {0})
    /\ resized_ok \in (IF target_resolution = "set" THEN BOOLEAN ELSE {TRUE})
    /\ pc = "check_image_paths"
    /\ duration_per_image = policy
    /\ audio_duration = 0
    /\ idx = 1
    /\ image_clips = <<>>
    /\ visual_total = 0
    /\ video_duration = 0
    /\ audio_clip_duration = 0
    /\ opened = {}
    /\ released = {}
    /\ failed_at = "nowhere"
    /\ file_written = "no"
    /\ result = "pending"

\* ------------------------------------------------------- create_slideshow

\* a raise that leaves create_slideshow
Raise(exc) ==
    /\ pc' = "done"
    /\ result' = exc

\* a raise inside the try block of lines 50-135
RaiseInTry(where) ==
    /\ pc' = "except"
    /\ failed_at' = where

\* mutant of CheckImagePaths: the check of line 29 left out
CheckImagePathsSkipped ==
    /\ pc = "check_image_paths"
    /\ pc' = "check_audio_path"
    /\ UNCHANGED <<cli, pipeline, overlay, args, output_path, videos, duration_per_image, audio_duration, idx,
                   image_clips, visual_total, video_duration,
                   audio_clip_duration, opened, released, failed_at,
                   file_written, result>>

\* lines 29-30
CheckImagePaths ==
    /\ pc = "check_image_paths"
    /\ IF image_paths = <<>>
       THEN Raise("raise ValueError")
       ELSE pc' = "check_audio_path" /\ UNCHANGED result
    /\ UNCHANGED <<cli, pipeline, overlay, args, output_path, videos, duration_per_image, audio_duration, idx, image_clips,
                   visual_total, video_duration, audio_clip_duration, opened,
                   released, failed_at, file_written>>

\* os.path.splitext(os.path.basename(audio_path))[0]
BaseName(path) ==
    CASE path = "song.mp3" -> "song"
      [] path = "gone.mp3" -> "gone"
      [] path = "noise.mp3" -> "noise"

\* a file name: its stem, its ending, and the second it is stamped with,
\* -1 when it carries no time stamp
NoPath == [stem |-> "", ending |-> "", stamp |-> -1]

\* lines 39-43: the name given, or the base name of the audio file followed
\* by _slideshow.mp4
OutputPath(filename, audio) ==
    IF filename = "None"
    THEN [stem |-> BaseName(audio), ending |-> "_slideshow.mp4", stamp |-> -1]
    ELSE [stem |-> filename, ending |-> "", stamp |-> -1]

\* one run of create_slideshow with no name given, in an empty directory
NamingDefault ==
    /\ output_filename = "None"
    /\ now = 1
    /\ output_path = NoPath
    /\ videos = {}

\* mutant of CheckAudioPath: the check of line 32 left out
CheckAudioPathSkipped ==
    /\ pc = "check_audio_path"
    /\ pc' = "load_audio"
    /\ duration_per_image' =
           IF duration_per_image.kind = "none"
           THEN [kind |-> "fixed", value |-> Ticks(DefaultDurationPerImage)]
           ELSE duration_per_image
    /\ output_path' = OutputPath(output_filename, audio_path)
    /\ UNCHANGED <<cli, pipeline, overlay, args, videos, audio_duration, idx, image_clips,
                   visual_total, video_duration, audio_clip_duration, opened,
                   released, failed_at, file_written, result>>

\* lines 32-43
CheckAudioPath ==
    /\ pc = "check_audio_path"
    /\ IF ~AudioExists(audio_path)
       THEN /\ Raise("raise FileNotFoundError")
            /\ UNCHANGED <<duration_per_image, output_path>>
       ELSE /\ pc' = "load_audio"
            /\ duration_per_image' =
                   IF duration_per_image.kind = "none"
                   THEN [kind |-> "fixed", value |-> Ticks(DefaultDurationPerImage)]
                   ELSE duration_per_image
            /\ output_path' = OutputPath(output_filename, audio_path)
            /\ UNCHANGED result
    /\ UNCHANGED <<cli, pipeline, overlay, args, videos, audio_duration, idx, image_clips, visual_total,
                   video_duration, audio_clip_duration, opened, released,
                   failed_at, file_written>>

\* lines 53-69
LoadAudio ==
    /\ pc = "load_audio"
    /\ IF ~AudioDecodes(audio_path)
       THEN /\ RaiseInTry("load_audio")
            /\ UNCHANGED <<duration_per_image, audio_duration, opened>>
       ELSE /\ opened' = opened \cup {<<"audio", 0>>}
            /\ audio_duration' = Ticks(audio_file_duration)
            /\ duration_per_image' =
                   IF duration_per_image.kind = "auto"
                   THEN [kind |-> "fixed",
                         value |-> AutoDuration(Ticks(audio_file_duration), image_paths)]
                   ELSE duration_per_image
            /\ pc' = "load_images"
            /\ UNCHANGED failed_at
    /\ UNCHANGED <<cli, pipeline, overlay, args, output_path, videos, idx, image_clips, visual_total, video_duration,
                   audio_clip_duration, released, file_written, result>>

\* mutant of LoadImage: a missing or undecodable image raises out of the loop
LoadImageStrict ==
    /\ pc = "load_images"
    /\ idx <= Len(image_paths)
    /\ LET p == image_paths[idx]
           img_clip == [src |-> idx, path |-> p, duration |-> 0]
       IN  IF ~ImageExists(p) \/ ~ImageDecodes(p)
           THEN /\ RaiseInTry("load_images")
                /\ UNCHANGED <<image_clips, opened, idx>>
           ELSE IF target_resolution = "set" /\ ~resized_ok
           THEN /\ opened' = opened \cup {<<"image", idx>>}
                /\ idx' = idx + 1
                /\ UNCHANGED <<image_clips, pc, failed_at>>
           ELSE /\ opened' = opened \cup {<<"image", idx>>}
                /\ image_clips' =
                       Append(image_clips, [img_clip EXCEPT !.duration = duration_per_image.value])
                /\ idx' = idx + 1
                /\ UNCHANGED <<pc, failed_at>>
    /\ UNCHANGED <<cli, pipeline, overlay, args, output_path, videos, duration_per_image, audio_duration,
                   visual_total, video_duration, audio_clip_duration, released,
                   file_written, result>>

\* lines 71-95, one iteration of the loop
LoadImage ==
    /\ pc = "load_images"
    /\ idx <= Len(image_paths)
    /\ LET p == image_paths[idx]
           img_clip == [src |-> idx, path |-> p, duration |-> 0]
       IN  IF ~ImageExists(p)
           THEN UNCHANGED <<image_clips, opened>>
           ELSE IF ~ImageDecodes(p)
           THEN UNCHANGED <<image_clips, opened>>
           ELSE IF target_resolution = "set" /\ ~resized_ok
           THEN /\ opened' = opened \cup {<<"image", idx>>}
                /\ UNCHANGED image_clips
           ELSE /\ opened' = opened \cup {<<"image", idx>>}
                /\ image_clips' =
                       append(image_clips, set_duration(img_clip, duration_per_image.value))
    /\ idx' = idx + 1
    /\ UNCHANGED <<cli, pipeline, overlay, args, output_path, videos, pc, duration_per_image, audio_duration, visual_total,
                   video_duration, audio_clip_duration, released, failed_at,
                   file_written, result>>

\* lines 97-98
CheckLoaded ==
    /\ pc = "load_images"
    /\ idx > Len(image_paths)
    /\ IF image_clips = <<>>
       THEN RaiseInTry("check_loaded")
       ELSE pc' = "concatenate" /\ UNCHANGED failed_at
    /\ UNCHANGED <<cli, pipeline, overlay, args, output_path, videos, duration_per_image, audio_duration, idx, image_clips,
                   visual_total, video_duration, audio_clip_duration, opened,
                   released, file_written, result>>

\* line 102
Concatenate ==
    /\ pc = "concatenate"
    /\ \/ /\ opened' = opened \cup {<<"video", 0>>}
          /\ visual_total' = concatenate_videoclips(image_clips)
          /\ video_duration' = concatenate_videoclips(image_clips)
          /\ pc' = "reconcile"
          /\ UNCHANGED failed_at
       \/ /\ RaiseInTry("concatenate")
          /\ UNCHANGED <<opened, visual_total, video_duration>>
    /\ UNCHANGED <<cli, pipeline, overlay, args, output_path, videos, duration_per_image, audio_duration, idx, image_clips,
                   audio_clip_duration, released, file_written, result>>

\* lines 108-116
Reconcile ==
    /\ pc = "reconcile"
    /\ \/ /\ video_duration' = ReconciledVideo(video_duration, audio_duration)
          /\ audio_clip_duration' =
                 ReconciledAudio(audio_duration,
                                 ReconciledVideo(video_duration, audio_duration))
          /\ pc' = "write_videofile"
          /\ UNCHANGED failed_at
       \/ /\ RaiseInTry("reconcile")
          /\ UNCHANGED <<video_duration, audio_clip_duration>>
    /\ UNCHANGED <<cli, pipeline, overlay, args, output_path, videos, duration_per_image, audio_duration, idx, image_clips,
                   visual_total, opened, released, file_written, result>>

\* lines 120-125
\* the output directory after writing to path: a file that was there
\* under that name is replaced
Written(path) ==
    {v \in videos : v.path # path} \cup {[path |-> path, by |-> "this run"]}

WriteVideofile ==
    /\ pc = "write_videofile"
    /\ \/ /\ file_written' = "complete"
          /\ pc' = "cleanup"
          /\ UNCHANGED failed_at
       \/ /\ file_written' \in {"no", "partial"}
          /\ RaiseInTry("write_videofile")
    /\ videos' = IF file_written' = "no" THEN videos ELSE Written(output_path)
    /\ UNCHANGED <<cli, pipeline, overlay, args, output_path, duration_per_image, audio_duration, idx, image_clips,
                   visual_total, video_duration, audio_clip_duration, opened,
                   released, result>>

\* the handles closed by lines 128-132
ClosedOnSuccess == {<<"video", 0>>, <<"audio", 0>>} \cup ClipHandles(image_clips)

\* the handles closed by lines 140-150; a name not yet bound raises a
\* NameError that the bare except swallows
ClosedOnFailure ==
    (IF failed_at = "load_audio" THEN {} ELSE {<<"audio", 0>>})
        \cup ClipHandles(image_clips)

\* lines 128-135
Cleanup ==
    /\ pc = "cleanup"
    /\ released' = released \cup ClosedOnSuccess
    /\ result' = "return output_path"
    /\ pc' = "done"
    /\ UNCHANGED <<cli, pipeline, overlay, args, output_path, videos, duration_per_image, audio_duration, idx, image_clips,
                   visual_total, video_duration, audio_clip_duration, opened,
                   failed_at, file_written>>

HandleExceptionReturnsPath ==
    /\ pc = "except"
    /\ released' = released \cup ClosedOnFailure
    /\ result' = "return output_path"
    /\ pc' = "done"
    /\ UNCHANGED <<cli, pipeline, overlay, args, output_path, videos, duration_per_image, audio_duration, idx, image_clips,
                   visual_total, video_duration, audio_clip_duration, opened,
                   failed_at, file_written>>

\* lines 137-152
HandleException ==
    /\ pc = "except"
    /\ released' = released \cup ClosedOnFailure
    /\ result' = "return None"
    /\ pc' = "done"
    /\ UNCHANGED <<cli, pipeline, overlay, args, output_path, videos, duration_per_image, audio_duration, idx, image_clips,
                   visual_total, video_duration, audio_clip_duration, opened,
                   failed_at, file_written>>

\* ------------------------------------------------------- add_text_overlay

\* longest text_list handed to add_text_overlay
MaxSegments == 2

VideoPaths == {"slideshow.mp4", "gone.mp4", "broken.mp4"}

\* os.path.exists(video_path)
VideoExists(p) == p # "gone.mp4"

\* VideoFileClip(video_path) decodes the file
VideoDecodes(p) == p = "slideshow.mp4"

\* durations of the video on disk, start times and durations of segments,
\* in seconds
VideoDurations == {2, 3}
StartTimes == {-1, 0, 1, 3}
SegmentDurations == {1, 4}

\* the dicts of text_list; the keys start_time and duration may be absent
Segments ==
    [text : {"la"}, start_time : StartTimes, duration : SegmentDurations]
        \cup [text : {"la"}, start_time : StartTimes]
        \cup [text : {"la"}]

\* dict.get(key, default)
Get(info, key, default) == IF key \in DOMAIN info THEN info[key] ELSE default

\* line 240
SegmentStart(info) == Get(info, "start_time", 0)

\* lines 241 and 248
SegmentDuration(info, v) ==
    Min(Get(info, "duration", v - SegmentStart(info)), v - SegmentStart(info))

\* mutant of SegmentSkipped: > for >= at line 244
SegmentSkippedStrict(info, v) == SegmentStart(info) > v

\* line 244: the segment is skipped
SegmentSkipped(info, v) == SegmentStart(info) >= v

TextHandles(clips) == {<<"text", clips[k].src>> : k \in 1..Len(clips)}

\* add_text_overlay has not been called
OverlayIdle ==
    /\ video_path = "slideshow.mp4"
    /\ text_list = <<>>
    /\ video_file_duration = 0
    /\ ov_pc = "idle"
    /\ video_clip_duration = 0
    /\ text_idx = 1
    /\ text_clips = <<>>
    /\ ov_output_path = "unset"
    /\ ov_opened = {}
    /\ ov_released = {}
    /\ ov_failed_at = "nowhere"
    /\ ov_file_written = "no"
    /\ ov_result = "pending"

\* add_text_overlay is called with any arguments, on any disk
OverlayInit ==
    /\ video_path \in VideoPaths
    /\ text_list \in SeqsUpTo(Segments, MaxSegments)
    /\ video_file_duration \in
           (IF VideoDecodes(video_path) THEN VideoDurations ELSE {0})
    /\ ov_pc = "check_video_path"
    /\ video_clip_duration = 0
    /\ text_idx = 1
    /\ text_clips = <<>>
    /\ ov_output_path = "unset"
    /\ ov_opened = {}
    /\ ov_released = {}
    /\ ov_failed_at = "nowhere"
    /\ ov_file_written = "no"
    /\ ov_result = "pending"

\* create_slideshow has not been called
SlideshowIdle ==
    /\ image_paths = <<>>
    /\ audio_path = "song.mp3"
    /\ policy = [kind |-> "none", value |-> 0]
    /\ target_resolution = "None"
    /\ audio_file_duration = 0
    /\ resized_ok = TRUE
    /\ pc = "idle"
    /\ duration_per_image = policy
    /\ audio_duration = 0
    /\ idx = 1
    /\ image_clips = <<>>
    /\ visual_total = 0
    /\ video_duration = 0
    /\ audio_clip_duration = 0
    /\ opened = {}
    /\ released = {}
    /\ failed_at = "nowhere"
    /\ file_written = "no"
    /\ result = "pending"

\* a raise that leaves add_text_overlay
OvRaise(exc) ==
    /\ ov_pc' = "done"
    /\ ov_result' = exc

\* a raise inside the try block of lines 231-309
OvRaiseInTry(where) ==
    /\ ov_pc' = "except"
    /\ ov_failed_at' = where

\* mutant of CheckVideoPath: the check of line 212 left out
CheckVideoPathSkipped ==
    /\ ov_pc = "check_video_path"
    /\ ov_pc' = "check_text_list"
    /\ UNCHANGED <<cli, pipeline, slideshow, video_path, text_list, video_file_duration,
                   video_clip_duration, text_idx, text_clips, ov_output_path,
                   ov_opened, ov_released, ov_failed_at, ov_file_written,
                   ov_result>>

\* lines 212-213
CheckVideoPath ==
    /\ ov_pc = "check_video_path"
    /\ IF ~VideoExists(video_path)
       THEN OvRaise("raise FileNotFoundError")
       ELSE ov_pc' = "check_text_list" /\ UNCHANGED ov_result
    /\ UNCHANGED <<cli, pipeline, slideshow, video_path, text_list, video_file_duration,
                   video_clip_duration, text_idx, text_clips, ov_output_path,
                   ov_opened, ov_released, ov_failed_at, ov_file_written>>

\* lines 215-229
CheckTextList ==
    /\ ov_pc = "check_text_list"
    /\ IF text_list = <<>>
       THEN /\ ov_pc' = "done"
            /\ ov_result' = "return video_path"
            /\ UNCHANGED ov_output_path
       ELSE /\ ov_pc' = "load_video"
            /\ ov_output_path' = "with_text.mp4"
            /\ UNCHANGED ov_result
    /\ UNCHANGED <<cli, pipeline, slideshow, video_path, text_list, video_file_duration,
                   video_clip_duration, text_idx, text_clips, ov_opened,
                   ov_released, ov_failed_at, ov_file_written>>

\* lines 233-236
LoadVideo ==
    /\ ov_pc = "load_video"
    /\ IF ~VideoDecodes(video_path)
       THEN /\ OvRaiseInTry("load_video")
            /\ UNCHANGED <<video_clip_duration, ov_opened>>
       ELSE /\ ov_opened' = ov_opened \cup {<<"video_clip", 0>>}
            /\ video_clip_duration' = video_file_duration
            /\ ov_pc' = "add_texts"
            /\ UNCHANGED ov_failed_at
    /\ UNCHANGED <<cli, pipeline, slideshow, video_path, text_list, video_file_duration,
                   text_idx, text_clips, ov_output_path, ov_released,
                   ov_file_written, ov_result>>

\* lines 239-246: a segment that starts at or after the end of the video
SkipText ==
    /\ ov_pc = "add_texts"
    /\ text_idx <= Len(text_list)
    /\ SegmentSkipped(text_list[text_idx], video_clip_duration)
    /\ text_idx' = text_idx + 1
    /\ UNCHANGED <<cli, pipeline, slideshow, video_path, text_list, video_file_duration, ov_pc,
                   video_clip_duration, text_clips, ov_output_path, ov_opened,
                   ov_released, ov_failed_at, ov_file_written, ov_result>>

\* the clip of lines 255-275 for the segment at text_idx
TextClipFor(font) ==
    [src |-> text_idx,
     text |-> Get(text_list[text_idx], "text", ""),
     start |-> SegmentStart(text_list[text_idx]),
     duration |-> SegmentDuration(text_list[text_idx], video_clip_duration),
     font |-> font]

\* lines 239-278: TextClip with the preferred font, or with the default font
\* after the preferred one raised, then position, start and duration
\* mutant of AddText: no second TextClip call, the failure leaves the loop
AddTextPreferredOnly ==
    /\ ov_pc = "add_texts"
    /\ text_idx <= Len(text_list)
    /\ ~SegmentSkipped(text_list[text_idx], video_clip_duration)
    /\ \/ /\ text_clips' = Append(text_clips, TextClipFor("SimHei"))
          /\ ov_opened' = ov_opened \cup {<<"text", text_idx>>}
          /\ text_idx' = text_idx + 1
          /\ UNCHANGED <<ov_pc, ov_failed_at>>
       \/ /\ OvRaiseInTry("add_texts")
          /\ UNCHANGED <<text_clips, ov_opened, text_idx>>
    /\ UNCHANGED <<cli, pipeline, slideshow, video_path, text_list, video_file_duration,
                   video_clip_duration, ov_output_path, ov_released,
                   ov_file_written, ov_result>>

AddText ==
    /\ ov_pc = "add_texts"
    /\ text_idx <= Len(text_list)
    /\ ~SegmentSkipped(text_list[text_idx], video_clip_duration)
    /\ \E font \in {"SimHei", "default"} :
           text_clips' = Append(text_clips, TextClipFor(font))
    /\ ov_opened' = ov_opened \cup {<<"text", text_idx>>}
    /\ text_idx' = text_idx + 1
    /\ UNCHANGED <<cli, pipeline, slideshow, video_path, text_list, video_file_duration, ov_pc,
                   video_clip_duration, ov_output_path, ov_released,
                   ov_failed_at, ov_file_written, ov_result>>

\* lines 264-272 and 280-282: TextClip raises with both fonts
TextClipFails ==
    /\ ov_pc = "add_texts"
    /\ text_idx <= Len(text_list)
    /\ ~SegmentSkipped(text_list[text_idx], video_clip_duration)
    /\ text_idx' = text_idx + 1
    /\ UNCHANGED <<cli, pipeline, slideshow, video_path, text_list, video_file_duration, ov_pc,
                   video_clip_duration, text_clips, ov_output_path, ov_opened,
                   ov_released, ov_failed_at, ov_file_written, ov_result>>

\* lines 275 and 280-282: the clip exists, with_position, with_start or
\* with_duration raises
PlaceTextFails ==
    /\ ov_pc = "add_texts"
    /\ text_idx <= Len(text_list)
    /\ ~SegmentSkipped(text_list[text_idx], video_clip_duration)
    /\ ov_opened' = ov_opened \cup {<<"text", text_idx>>}
    /\ text_idx' = text_idx + 1
    /\ UNCHANGED <<cli, pipeline, slideshow, video_path, text_list, video_file_duration, ov_pc,
                   video_clip_duration, text_clips, ov_output_path, ov_released,
                   ov_failed_at, ov_file_written, ov_result>>

\* mutant of Compose: the test of line 285 left out
ComposeAlways ==
    /\ ov_pc = "add_texts"
    /\ text_idx > Len(text_list)
    /\ \/ /\ ov_opened' = ov_opened \cup {<<"composite", 0>>}
          /\ ov_pc' = "write_with_text"
          /\ UNCHANGED <<ov_output_path, ov_failed_at>>
       \/ /\ OvRaiseInTry("compose")
          /\ UNCHANGED <<ov_output_path, ov_opened>>
    /\ UNCHANGED <<cli, pipeline, slideshow, video_path, text_list, video_file_duration,
                   video_clip_duration, text_idx, text_clips, ov_released,
                   ov_file_written, ov_result>>

\* lines 285-286 and 299-301
Compose ==
    /\ ov_pc = "add_texts"
    /\ text_idx > Len(text_list)
    /\ IF text_clips # <<>>
       THEN \/ /\ ov_opened' = ov_opened \cup {<<"composite", 0>>}
               /\ ov_pc' = "write_with_text"
               /\ UNCHANGED <<ov_output_path, ov_failed_at>>
            \/ /\ OvRaiseInTry("compose")
               /\ UNCHANGED <<ov_output_path, ov_opened>>
       ELSE /\ ov_output_path' = "video_path"
            /\ ov_pc' = "cleanup"
            /\ UNCHANGED <<ov_opened, ov_failed_at>>
    /\ UNCHANGED <<cli, pipeline, slideshow, video_path, text_list, video_file_duration,
                   video_clip_duration, text_idx, text_clips, ov_released,
                   ov_file_written, ov_result>>

\* lines 290-298
WriteWithText ==
    /\ ov_pc = "write_with_text"
    /\ \/ /\ ov_file_written' = "complete"
          /\ ov_released' = ov_released \cup {<<"composite", 0>>}
          /\ ov_pc' = "cleanup"
          /\ UNCHANGED ov_failed_at
       \/ /\ ov_file_written' \in {"no", "partial"}
          /\ OvRaiseInTry("write_with_text")
          /\ UNCHANGED ov_released
    /\ UNCHANGED <<cli, pipeline, slideshow, video_path, text_list, video_file_duration,
                   video_clip_duration, text_idx, text_clips, ov_output_path,
                   ov_opened, ov_result>>

\* the handles closed by lines 304-306
OvClosedOnSuccess == {<<"video_clip", 0>>} \cup TextHandles(text_clips)

\* the handles closed by lines 314-317; video_clip is unbound when
\* VideoFileClip raised
OvClosedOnFailure ==
    IF ov_failed_at = "load_video" THEN {} ELSE {<<"video_clip", 0>>}

\* lines 304-309
OvCleanup ==
    /\ ov_pc = "cleanup"
    /\ ov_released' = ov_released \cup OvClosedOnSuccess
    /\ ov_result' = IF ov_output_path = "video_path"
                    THEN "return video_path" ELSE "return output_path"
    /\ ov_pc' = "done"
    /\ UNCHANGED <<cli, pipeline, slideshow, video_path, text_list, video_file_duration,
                   video_clip_duration, text_idx, text_clips, ov_output_path,
                   ov_opened, ov_failed_at, ov_file_written>>

\* lines 311-318
OvHandleException ==
    /\ ov_pc = "except"
    /\ ov_released' = ov_released \cup OvClosedOnFailure
    /\ ov_result' = "return None"
    /\ ov_pc' = "done"
    /\ UNCHANGED <<cli, pipeline, slideshow, video_path, text_list, video_file_duration,
                   video_clip_duration, text_idx, text_clips, ov_output_path,
                   ov_opened, ov_failed_at, ov_file_written>>

\* ------------------------------------------------------- specifications

\* audio_to_video_pipeline has not been called
PipelineIdle ==
    /\ max_images = 0
    /\ pl_duration = [kind |-> "none", value |-> 0]
    /\ add_text = FALSE
    /\ use_beat_sync = FALSE
    /\ transcript_file = "none"
    /\ pl_pc = "idle"
    /\ transcript = "unset"
    /\ pl_image_paths = <<>>
    /\ pl_video_path = "unset"
    /\ pl_result = "pending"
    /\ prompt_results = <<>>
    /\ beat_outcome = [kind |-> "not run", interval |-> 0]

\* main.py is not running
MainIdle ==
    /\ argv = [audio_file |-> "none", output |-> "None",
               max_images |-> [given |-> FALSE, value |-> 0]]
    /\ image_config = [present |-> TRUE, value |-> ConfiguredMaxImages]
    /\ m_pc = "idle"
    /\ m_text = "unset"
    /\ m_sentences = 0
    /\ m_image_paths = <<>>
    /\ m_output_name = NoPath
    /\ m_call = "not made"
    /\ m_failed = "nowhere"
    /\ m_result = "pending"
    /\ exit_code = "running"

\* one call of create_slideshow
Init == SlideshowInit /\ NamingDefault /\ OverlayIdle /\ PipelineIdle /\ MainIdle

Next ==
    \/ CheckImagePaths
    \/ CheckAudioPath
    \/ LoadAudio
    \/ LoadImage
    \/ CheckLoaded
    \/ Concatenate
    \/ Reconcile
    \/ WriteVideofile
    \/ Cleanup
    \/ HandleException

Spec == Init /\ [][Next]_vars

\* one call of create_slideshow on one image at most, with or without a
\* file name, in a directory where an earlier run of create_slideshow with
\* the same arguments may have left its video
NamingStart ==
    /\ SlideshowInit
    /\ Len(image_paths) <= 1
    /\ policy.kind = "none"
    /\ target_resolution = "None"
    /\ output_filename \in {"None", "out.mp4"}
    /\ now \in {1, 2}
    /\ output_path = NoPath
    /\ videos \in {{}, {[path |-> OutputPath(output_filename, audio_path),
                          by |-> "earlier run"]}}
    /\ OverlayIdle
    /\ PipelineIdle
    /\ MainIdle

SpecNaming == NamingStart /\ [][Next]_vars

\* one call of add_text_overlay
OverlayStart ==
    SlideshowIdle /\ NamingDefault /\ OverlayInit /\ PipelineIdle /\ MainIdle

OverlayNext ==
    \/ CheckVideoPath
    \/ CheckTextList
    \/ LoadVideo
    \/ SkipText
    \/ AddText
    \/ TextClipFails
    \/ PlaceTextFails
    \/ Compose
    \/ WriteWithText
    \/ OvCleanup
    \/ OvHandleException

SpecOverlay == OverlayStart /\ [][OverlayNext]_vars

\* ------------------------------------------- audio_to_video_pipeline

\* the values of max_images that are explored
ImageCounts == {1, 2}

\* the lengths, in seconds, of the audio handed to the pipeline
PipelineAudioSeconds == {1, 3}

\* the duration_per_image arguments handed to the pipeline
PipelineDurationArgs ==
    {[kind |-> "none", value |-> 0], [kind |-> "auto", value |-> 0],
     [kind |-> "fixed", value |-> 0], [kind |-> "fixed", value |-> Ticks(1)]}

\* the files generate_image can leave behind: a good image or one that
\* does not decode
GeneratedFiles == {"a.png", "corrupt.png"}

\* what generate_image gives for each of n prompts: a path or None
PromptOutcomes(n) == [1..n -> GeneratedFiles \cup {"None"}]

\* mutant of create_images_for_sentences: the loop ends at the first None
create_images_until_none(results) ==
    SubSeq(results, 1,
           Cardinality({i \in 1..Len(results) :
                           \A j \in 1..i : results[j] # "None"}))

\* the loop of create_images_for_sentences and of generate_default_images:
\* every prompt is tried, the truthy paths are appended in prompt order
create_images_for_sentences(results) ==
    SelectSeq(results, LAMBDA r : r # "None")

\* the default keyword lists of audio_to_images_pipeline
DefaultKeywordCount == 5
FallbackKeywordCount == 4

\* the whole slideshow and overlay procedures except the named audio
SlideshowNotCalled ==
    /\ image_paths = <<>>
    /\ policy = [kind |-> "none", value |-> 0]
    /\ target_resolution = "None"
    /\ resized_ok = TRUE
    /\ pc = "idle"
    /\ duration_per_image = policy
    /\ audio_duration = 0
    /\ idx = 1
    /\ image_clips = <<>>
    /\ visual_total = 0
    /\ video_duration = 0
    /\ audio_clip_duration = 0
    /\ opened = {}
    /\ released = {}
    /\ failed_at = "nowhere"
    /\ file_written = "no"
    /\ result = "pending"

PipelineInit ==
    /\ audio_path \in AudioPaths
    /\ audio_file_duration \in
           (IF AudioDecodes(audio_path) THEN PipelineAudioSeconds ELSE {0})
    /\ max_images \in ImageCounts
    /\ pl_duration \in PipelineDurationArgs
    /\ add_text \in BOOLEAN
    /\ use_beat_sync \in BOOLEAN
    /\ transcript_file \in {"none", "stale"}
    /\ pl_pc = "check_audio"
    /\ transcript = "unset"
    /\ pl_image_paths = <<>>
    /\ pl_video_path = "unset"
    /\ pl_result = "pending"
    /\ prompt_results = <<>>
    /\ beat_outcome = [kind |-> "not run", interval |-> 0]

\* the arguments of one pipeline run
pl_args == <<max_images, pl_duration, add_text, use_beat_sync>>

\* audio_to_images_pipeline, the existence check at the top of its try:
\* the FileNotFoundError is caught by the function's own handler
CheckAudioFile ==
    /\ pl_pc = "check_audio"
    /\ pl_pc' = IF AudioExists(audio_path) THEN "transcribe"
                ELSE "fallback_images"
    /\ UNCHANGED <<slideshow, overlay, cli, pl_args, prompt_results, beat_outcome, transcript_file, transcript,
                   pl_image_paths, pl_video_path, pl_result>>

\* AudioProcessor("base") and transcribe_audio: loading the model may
\* raise; transcribe_audio itself returns "" on every failure
Transcribe ==
    /\ pl_pc = "transcribe"
    /\ \/ /\ pl_pc' = "fallback_images"
          /\ UNCHANGED transcript
       \/ /\ transcript' = ""
          /\ pl_pc' = "default_images"
       \/ /\ AudioDecodes(audio_path)
          /\ transcript' = "lyrics"
          /\ pl_pc' = "derive_prompts"
    /\ UNCHANGED <<slideshow, overlay, cli, pl_args, prompt_results, beat_outcome, transcript_file,
                   pl_image_paths, pl_video_path, pl_result>>

\* sentences, keywords cut and padded to max_images, then the transcript
\* and keyword files are saved; a failure is caught by the inner handler
DerivePrompts ==
    /\ pl_pc = "derive_prompts"
    /\ \/ /\ transcript_file' = "fresh"
          /\ pl_pc' = "generate_images"
       \/ /\ transcript_file' \in {transcript_file, "fresh"}
          /\ pl_pc' = "rescue_images"
    /\ UNCHANGED <<slideshow, overlay, cli, pl_args, prompt_results, beat_outcome, transcript,
                   pl_image_paths, pl_video_path, pl_result>>

\* create_images_for_sentences over the max_images prompts, once more
\* over the default keywords when it returned nothing
GenerateImages ==
    /\ pl_pc = "generate_images"
    /\ \E first \in PromptOutcomes(max_images) :
          IF create_images_for_sentences(first) # <<>>
          THEN prompt_results' = first
          ELSE prompt_results' \in
                   PromptOutcomes(Min(DefaultKeywordCount, max_images))
    /\ pl_image_paths' = create_images_for_sentences(prompt_results')
    /\ pl_pc' = "create_video"
    /\ UNCHANGED <<slideshow, overlay, cli, pl_args, transcript_file, transcript,
                   pl_video_path, pl_result, beat_outcome>>

\* the number of default prompts tried on each of the three fallback paths
DefaultPrompts ==
    IF pl_pc = "fallback_images"
    THEN Min(FallbackKeywordCount, Min(FallbackKeywordCount, max_images))
    ELSE Min(DefaultKeywordCount, max_images)

\* generate_default_images after an empty transcript or in the outer
\* handler, create_images_for_sentences(default_keywords) in the inner one
GenerateDefaultImages ==
    /\ pl_pc \in {"default_images", "fallback_images", "rescue_images"}
    /\ prompt_results' \in PromptOutcomes(DefaultPrompts)
    /\ pl_image_paths' = create_images_for_sentences(prompt_results')
    /\ pl_pc' = "create_video"
    /\ UNCHANGED <<slideshow, overlay, cli, pl_args, transcript_file, transcript,
                   pl_video_path, pl_result, beat_outcome>>

\* create_slideshow_with_beat: the clamp of twice the average beat interval
MinBeatSeconds == 1
MaxBeatSeconds == 8
DefaultBeatSeconds == 4

Max(a, b) == IF a > b THEN a ELSE b

\* what the beat analysis can come to: librosa is missing, the analysis
\* raises, at most one beat is found, or an average interval (in ticks)
BeatIntervals == {1, Scale, 5 * Scale}

BeatOutcomes ==
    {[kind |-> k, interval |-> 0] :
         k \in {"ImportError", "Exception", "few beats"}}
    \cup {[kind |-> "beats", interval |-> i] : i \in BeatIntervals}

\* mutant of BeatDuration: the clamp of line 179 left out
BeatDurationUnclamped(outcome) ==
    IF outcome.kind = "beats"
    THEN outcome.interval * 2
    ELSE Ticks(DefaultBeatSeconds)

BeatDuration(outcome) ==
    IF outcome.kind = "beats"
    THEN Max(Ticks(MinBeatSeconds),
             Min(Ticks(MaxBeatSeconds), outcome.interval * 2))
    ELSE Ticks(DefaultBeatSeconds)

\* audio_to_video_pipeline: no image means ValueError, caught by the
\* handler of the pipeline; otherwise create_slideshow is called, through
\* create_slideshow_with_beat when use_beat_sync is set
CreateVideo ==
    /\ pl_pc = "create_video"
    /\ IF pl_image_paths = <<>>
       THEN /\ pl_result' = "return None"
            /\ pl_pc' = "done"
            /\ UNCHANGED <<image_paths, policy, duration_per_image, pc,
                           beat_outcome>>
       ELSE /\ image_paths' = pl_image_paths
            /\ IF use_beat_sync
               THEN /\ beat_outcome' \in BeatOutcomes
                    /\ policy' = [kind |-> "fixed",
                                  value |-> BeatDuration(beat_outcome')]
               ELSE /\ policy' = pl_duration
                    /\ UNCHANGED beat_outcome
            /\ duration_per_image' = policy'
            /\ pc' = "check_image_paths"
            /\ pl_pc' = "await_slideshow"
            /\ UNCHANGED pl_result
    /\ UNCHANGED <<overlay, cli, pl_args, prompt_results, transcript_file,
                   transcript, pl_image_paths, pl_video_path, audio_path,
                   target_resolution, audio_file_duration, resized_ok,
                   audio_duration, idx, image_clips, visual_total,
                   video_duration, audio_clip_duration, opened, released,
                   failed_at, file_written, result, output_filename, now,
                   output_path, videos>>

SlideshowReturnedUnchecked ==
    /\ pl_pc = "await_slideshow"
    /\ pc = "done"
    /\ pl_video_path' = "slideshow.mp4"
    /\ IF add_text
       THEN pl_pc' = "captions" /\ UNCHANGED pl_result
       ELSE pl_pc' = "done" /\ pl_result' = "return video_path"
    /\ UNCHANGED <<slideshow, overlay, cli, pl_args, prompt_results, beat_outcome, transcript_file, transcript,
                   pl_image_paths>>

\* create_slideshow has returned: None or an exception ends the pipeline
\* with None, a path is kept and returned unless captions are asked for
SlideshowReturned ==
    /\ pl_pc = "await_slideshow"
    /\ pc = "done"
    /\ IF result # "return output_path"
       THEN /\ pl_result' = "return None"
            /\ pl_pc' = "done"
            /\ UNCHANGED pl_video_path
       ELSE /\ pl_video_path' = "slideshow.mp4"
            /\ IF add_text
               THEN pl_pc' = "captions" /\ UNCHANGED pl_result
               ELSE pl_pc' = "done" /\ pl_result' = "return video_path"
    /\ UNCHANGED <<slideshow, overlay, cli, pl_args, prompt_results, beat_outcome, transcript_file, transcript,
                   pl_image_paths>>

\* get_audio_duration: the measured length, an estimate from the file size
\* (at least one second), or 60 seconds when measuring fails
MinEstimateSeconds == 1
FailedDurationSeconds == 60

get_audio_duration ==
    {Ticks(audio_file_duration), Ticks(MinEstimateSeconds),
     Ticks(FailedDurationSeconds)}

\* img_duration of the caption segments: the pipeline's duration_per_image
\* when it is truthy and not "auto", else the audio length over the images
ImgDurations ==
    IF pl_duration.kind = "fixed" /\ pl_duration.value # 0
    THEN {pl_duration.value}
    ELSE {d \div Len(pl_image_paths) : d \in get_audio_duration}

\* one caption per image, each img_duration long, back to back from 0
CaptionList(img_duration) ==
    [i \in 1..Len(pl_image_paths) |->
        [text |-> "la", start_time |-> (i - 1) * img_duration,
         duration |-> img_duration]]

\* the caption step: without a transcript file, or when reading it or
\* measuring the audio raises, the pipeline returns the slideshow;
\* otherwise add_text_overlay is called on the encoded slideshow
Captions ==
    /\ pl_pc = "captions"
    /\ \/ /\ pl_pc' = "done"
          /\ pl_result' = "return video_path"
          /\ UNCHANGED <<video_path, text_list, video_file_duration, ov_pc>>
       \/ /\ transcript_file # "none"
          /\ \E img_duration \in ImgDurations :
                 text_list' = CaptionList(img_duration)
          /\ video_path' = pl_video_path
          /\ video_file_duration' = video_duration
          /\ ov_pc' = "check_video_path"
          /\ pl_pc' = "await_overlay"
          /\ UNCHANGED pl_result
    /\ UNCHANGED <<slideshow, cli, pl_args, prompt_results, beat_outcome, transcript_file, transcript,
                   pl_image_paths, pl_video_path, video_clip_duration,
                   text_idx, text_clips, ov_output_path, ov_opened,
                   ov_released, ov_failed_at, ov_file_written, ov_result>>

\* mutant of OverlayReturned: a caption step without result fails the run
OverlayReturnedStrict ==
    /\ pl_pc = "await_overlay"
    /\ ov_pc = "done"
    /\ pl_video_path' = IF ov_result = "return output_path"
                        THEN "with_text.mp4" ELSE pl_video_path
    /\ pl_result' = IF ov_result \in {"return output_path", "return video_path"}
                    THEN "return video_path" ELSE "return None"
    /\ pl_pc' = "done"
    /\ UNCHANGED <<slideshow, overlay, cli, pl_args, prompt_results,
                   beat_outcome, transcript_file, transcript, pl_image_paths>>

\* add_text_overlay has returned: a path other than video_path replaces
\* it; None, the same path or an exception leave the slideshow in place
OverlayReturned ==
    /\ pl_pc = "await_overlay"
    /\ ov_pc = "done"
    /\ pl_video_path' = IF ov_result = "return output_path"
                        THEN "with_text.mp4" ELSE pl_video_path
    /\ pl_result' = "return video_path"
    /\ pl_pc' = "done"
    /\ UNCHANGED <<slideshow, overlay, cli, pl_args, prompt_results, beat_outcome, transcript_file, transcript,
                   pl_image_paths>>

\* one call of audio_to_video_pipeline
PipelineStart ==
    /\ SlideshowNotCalled
    /\ NamingDefault
    /\ OverlayIdle
    /\ PipelineInit
    /\ MainIdle

PipelineNext ==
    \/ CheckAudioFile
    \/ Transcribe
    \/ DerivePrompts
    \/ GenerateImages
    \/ GenerateDefaultImages
    \/ CreateVideo
    \/ SlideshowReturned
    \/ Captions
    \/ OverlayReturned
    \/ Next
    \/ OverlayNext

SpecPipeline == PipelineStart /\ [][PipelineNext]_vars

\* ------------------------------------------------------------ main.py

\* the -m values explored: not given, or 0, 1 or 2
MaxImagesArgs ==
    {[given |-> FALSE, value |-> 0]}
    \cup {[given |-> TRUE, value |-> v] : v \in 0..2}

\* what the transcription can be: nothing, fewer than 5 characters, more
Transcriptions == {"", "hi", "lyrics"}

\* the numbers of sentences the text can split into
SentenceCounts == 0..2

\* the keyword parameters of create_slideshow and the keywords that
\* _create_video passes
SlideshowKeywords ==
    {"output_filename", "duration_per_image", "transition_duration",
     "target_resolution"}

PassedKeywords == {"transition_type", "resolution"}

\* a run of main.py without --test
MainInit ==
    /\ argv \in [audio_file : {"none"} \cup AudioPaths,
                 output : {"None", "out"},
                 max_images : MaxImagesArgs]
    /\ image_config \in {[present |-> TRUE, value |-> ConfiguredMaxImages],
                         [present |-> FALSE, value |-> 0]}
    /\ m_pc = "main"
    /\ m_text = "unset"
    /\ m_sentences = 0
    /\ m_image_paths = <<>>
    /\ m_output_name = NoPath
    /\ m_call = "not made"
    /\ m_failed = "nowhere"
    /\ m_result = "pending"
    /\ exit_code = "running"

\* main returns: the interpreter exits with status 0
Return == m_pc' = "done" /\ exit_code' = "0"

\* process_audio_to_video returns None
ReturnNone == m_pc' = "report" /\ m_result' = "return None"

\* an exception wrapped into RuntimeError by the step, caught at line 225
Fail(step) == m_failed' = step /\ ReturnNone

\* main: the audio file argument, asked for when missing, must exist
CheckArguments ==
    /\ m_pc = "main"
    /\ \E typed \in {""} \cup AudioPaths :
          LET audio_file == IF argv.audio_file = "none"
                            THEN typed ELSE argv.audio_file
          IN  /\ argv' = [argv EXCEPT !.audio_file = audio_file]
              /\ IF audio_file = "" \/ ~AudioExists(audio_file)
                 THEN Return
                 ELSE m_pc' = "init" /\ UNCHANGED exit_code
    /\ UNCHANGED <<slideshow, overlay, pipeline, image_config, m_text,
                   m_sentences, m_image_paths, m_output_name, m_call,
                   m_failed, m_result>>

\* MusicSlideshowPipeline(): a failure is raised as RuntimeError and
\* caught by main
InitPipeline ==
    /\ m_pc = "init"
    /\ \/ m_pc' = "transcribe" /\ UNCHANGED <<m_failed, exit_code>>
       \/ m_failed' = "init" /\ Return
    /\ UNCHANGED <<slideshow, overlay, pipeline, argv, image_config, m_text,
                   m_sentences, m_image_paths, m_output_name, m_call,
                   m_result>>

\* lines 139-170 and _run_transcription: the text is saved and returned;
\* an empty text or one shorter than 5 characters ends the run with None
RunTranscription ==
    /\ m_pc = "transcribe"
    /\ IF ~AudioExists(argv.audio_file)
       THEN Fail("audio file") /\ UNCHANGED m_text
       ELSE /\ m_text' \in Transcriptions
            /\ \/ Fail("transcription")
               \/ /\ IF m_text' \in {"", "hi"}
                     THEN ReturnNone
                     ELSE m_pc' = "process_text" /\ UNCHANGED m_result
                  /\ UNCHANGED m_failed
    /\ UNCHANGED <<slideshow, overlay, pipeline, argv, image_config,
                   m_sentences, m_image_paths, m_output_name, m_call,
                   exit_code>>

\* lines 172-180 and _process_text
ProcessText ==
    /\ m_pc = "process_text"
    /\ m_sentences' \in SentenceCounts
    /\ \/ Fail("text")
       \/ /\ IF m_sentences' = 0
             THEN ReturnNone
             ELSE m_pc' = "generate_images" /\ UNCHANGED m_result
          /\ UNCHANGED m_failed
    /\ UNCHANGED <<slideshow, overlay, pipeline, argv, image_config, m_text,
                   m_image_paths, m_output_name, m_call, exit_code>>

\* _generate_images: IMAGE_CONFIG["max_images"] is overridden when
\* max_images is given, the sentences are cut to max_images when that is
\* truthy, the image manager is called, and the configuration is put back
\* when the manager returned and the key had a value before
GenerateImagesStep ==
    /\ m_pc = "generate_images"
    /\ LET given == argv.max_images.given
           max_imgs == argv.max_images.value
           original_max_kept == given /\ image_config.present
           overridden == IF given
                         THEN [present |-> TRUE, value |-> max_imgs]
                         ELSE image_config
           sentences == IF given /\ max_imgs # 0 /\ m_sentences > max_imgs
                        THEN max_imgs ELSE m_sentences
       IN  \/ /\ image_config' = overridden
              /\ Fail("images")
              /\ UNCHANGED m_image_paths
           \/ /\ image_config' = IF original_max_kept
                                 THEN image_config ELSE overridden
              /\ m_image_paths' \in SeqsUpTo(GeneratedFiles, sentences)
              /\ IF m_image_paths' = <<>>
                 THEN ReturnNone
                 ELSE m_pc' = "create_video" /\ UNCHANGED m_result
              /\ UNCHANGED m_failed
    /\ UNCHANGED <<slideshow, overlay, pipeline, argv, m_text, m_sentences,
                   m_output_name, m_call, exit_code>>

\* _create_video, lines 350-359: the name given, with .mp4 added, or the
\* base name of the audio file with _slideshow_ and the time stamp
CreateVideoName ==
    IF argv.output = "None"
    THEN [stem |-> BaseName(argv.audio_file), ending |-> "_slideshow.mp4",
          stamp |-> now]
    ELSE [stem |-> argv.output, ending |-> ".mp4", stamp |-> -1]

\* _create_video: the call of create_slideshow is a TypeError unless every
\* keyword passed is a parameter of the method; the TypeError is wrapped
\* into RuntimeError and process_audio_to_video returns None
CreateVideoStep ==
    /\ m_pc = "create_video"
    /\ m_output_name' = CreateVideoName
    /\ IF PassedKeywords \subseteq SlideshowKeywords
       THEN /\ m_call' = "accepted"
            /\ \/ /\ m_result' = "return video_path"
                  /\ m_pc' = "report"
                  /\ UNCHANGED m_failed
               \/ ReturnNone /\ UNCHANGED m_failed
               \/ Fail("video")
       ELSE /\ m_call' = "rejected"
            /\ Fail("video")
    /\ UNCHANGED <<slideshow, overlay, pipeline, argv, image_config, m_text,
                   m_sentences, m_image_paths, exit_code>>

\* main, lines 503-518: the result is printed and main returns
ReportResult ==
    /\ m_pc = "report"
    /\ Return
    /\ UNCHANGED <<slideshow, overlay, pipeline, argv, image_config, m_text,
                   m_sentences, m_image_paths, m_output_name, m_call,
                   m_failed, m_result>>

\* audio_to_video_pipeline.py, main: status 1 when the pipeline returned
\* None, 0 otherwise
PipelineExitCode == IF pl_result = "return None" THEN "1" ELSE "0"

\* one run of main.py
MainStart ==
    /\ SlideshowIdle
    /\ NamingDefault
    /\ OverlayIdle
    /\ PipelineIdle
    /\ MainInit

MainNext ==
    \/ CheckArguments
    \/ InitPipeline
    \/ RunTranscription
    \/ ProcessText
    \/ GenerateImagesStep
    \/ CreateVideoStep
    \/ ReportResult

SpecMain == MainStart /\ [][MainNext]_vars

\* ------------------------------------------------------------------ claims

\* the images of image_paths that create_slideshow can load: the file exists,
\* decodes, and can be resized when a resolution is asked for
Loads(p) ==
    /\ ImageExists(p)
    /\ ImageDecodes(p)
    /\ target_resolution = "set" => resized_ok

LoadedPaths == SelectSeq(image_paths, Loads)

ClipPaths == [k \in 1..Len(image_clips) |-> image_clips[k].path]

\* the for loop of line 71 has run to its end
LoadingDone == image_paths # <<>> /\ idx > Len(image_paths)

\* line 102 has run
Concatenated ==
    \/ pc \in {"reconcile", "write_videofile", "cleanup"}
    \/ failed_at \in {"reconcile", "write_videofile"}
    \/ result = "return output_path"

\* lines 108-116 have run
Reconciled ==
    \/ pc \in {"write_videofile", "cleanup"}
    \/ failed_at = "write_videofile"
    \/ result = "return output_path"

Raises == {"raise ValueError", "raise FileNotFoundError"}

\* C1: the slideshow that is encoded lasts min(visual_total, audio_duration),
\* visual_total being the sum of the durations of the loaded clips, and the
\* audio bound to it lasts the same.
C1_ReconciledIsMin ==
    Reconciled =>
        /\ video_duration = Min(SumDurations(image_clips), audio_duration)
        /\ audio_clip_duration = video_duration

\* C1 witness: a video was encoded whose visual track was longer than the audio
C1_Witness ==
    /\ file_written = "complete"
    /\ SumDurations(image_clips) > audio_duration
    /\ video_duration = audio_duration

VisualShortened == video_duration < visual_total

AudioShortened == audio_clip_duration < audio_duration

\* C2: the visual track is shortened exactly when it is longer than the audio,
\* the audio exactly when it is longer than the visual track, never both, and
\* neither track ends longer than it was (with equal durations neither is
\* shortened).
C2_OneSideShortened ==
    Reconciled =>
        /\ VisualShortened <=> visual_total > audio_duration
        /\ AudioShortened <=> audio_duration > visual_total
        /\ ~(VisualShortened /\ AudioShortened)
        /\ video_duration <= visual_total
        /\ audio_clip_duration <= audio_duration

\* C2 witness: a video was encoded whose audio was cut to the visual track
C2_Witness ==
    /\ file_written = "complete"
    /\ AudioShortened
    /\ ~VisualShortened
    /\ audio_clip_duration = visual_total

\* C3 as stated: with a fixed duration_per_image d the concatenated track lasts
\* count(images supplied) * d.
C3_SuppliedCount ==
    (policy.kind = "fixed" /\ Concatenated) =>
        visual_total = Len(image_paths) * policy.value

\* C3 amended: with a fixed duration_per_image d the concatenated track lasts
\* d times the number of images that loaded.
C3_LoadedCount ==
    (policy.kind = "fixed" /\ Concatenated) =>
        /\ visual_total = Len(LoadedPaths) * policy.value
        /\ \A k \in 1..Len(image_clips) : image_clips[k].duration = policy.value

\* C3 witness: a fixed positive duration, one image skipped, the rest
\* concatenated
C3_Witness ==
    /\ policy.kind = "fixed"
    /\ policy.value > 0
    /\ Concatenated
    /\ 0 < Len(image_clips)
    /\ Len(image_clips) < Len(image_paths)

\* C4: under "auto" every clip lasts A / n, n being the number of images
\* supplied, and the slideshow lasts A.
C4_AutoFillsAudio ==
    (policy.kind = "auto" /\ Reconciled) =>
        /\ \A k \in 1..Len(image_clips) :
               image_clips[k].duration * Len(image_paths) = audio_duration
        /\ video_duration = audio_duration

\* C5: when create_slideshow has returned or raised, every handle it opened
\* has been released.
C5_AllReleased == pc = "done" => opened \subseteq released

\* C7: with an empty image list create_slideshow raises to its caller, and it
\* opens no handle and writes no file.
C7_EmptyImagesRaise ==
    image_paths = <<>> =>
        /\ opened = {}
        /\ file_written = "no"
        /\ pc = "done" => result = "raise ValueError"

\* C7 witness: a call with an empty list has ended
C7_Witness == image_paths = <<>> /\ pc = "done" /\ result = "raise ValueError"

\* C8 as stated: with an audio path that does not exist create_slideshow
\* raises the missing-audio error, before any handle is opened.
C8_MissingAudioRaises ==
    ~AudioExists(audio_path) =>
        /\ opened = {}
        /\ pc = "done" => result = "raise FileNotFoundError"

\* C8 amended: with a non-empty image list and an audio path that does not
\* exist create_slideshow raises the missing-audio error, before any handle is
\* opened.
C8_MissingAudioRaisesNonEmpty ==
    (image_paths # <<>> /\ ~AudioExists(audio_path)) =>
        /\ opened = {}
        /\ file_written = "no"
        /\ pc = "done" => result = "raise FileNotFoundError"

\* C8 witness: a call with images and a missing audio file has ended
C8_Witness ==
    /\ image_paths # <<>>
    /\ ~AudioExists(audio_path)
    /\ pc = "done"
    /\ result = "raise FileNotFoundError"

\* C9: when no supplied image loads, create_slideshow raises an error to its
\* caller.
C9_NoImagesRaises ==
    (pc = "done" /\ LoadingDone /\ LoadedPaths = <<>>) => result \in Raises

\* C10: an image that is missing or fails to load is skipped: the clips are
\* exactly the images that load, in order, the run never fails in the loading
\* loop when one image loads, and it goes on to concatenation, reconciliation
\* and encoding.
C10_SkipNotFail ==
    /\ LoadingDone => ClipPaths = LoadedPaths
    /\ (failed_at = "check_loaded" \/ pc = "concatenate") => LoadingDone
    /\ LoadedPaths # <<>> => failed_at \notin {"load_images", "check_loaded"}
    /\ (LoadedPaths # <<>> /\ pc = "done" /\ result = "return None") =>
           failed_at \in {"load_audio", "concatenate", "reconcile", "write_videofile"}

\* C10 witness: a video was returned although an image was missing on disk
C10_Witness ==
    /\ result = "return output_path"
    /\ \E k \in 1..Len(image_paths) : ~ImageExists(image_paths[k])
    /\ \E k \in 1..Len(image_paths) : ~ImageDecodes(image_paths[k]) /\ ImageExists(image_paths[k])
    /\ Len(image_clips) = 1

\* C6: when add_text_overlay has returned or raised, every handle it opened
\* has been released.
C6_OverlayAllReleased == ov_pc = "done" => ov_opened \subseteq ov_released

\* C11: the clips are a subsequence of image_paths in the caller's order, and
\* every loadable entry of image_paths has its own clip, a path given twice
\* having two.
C11_OrderKept ==
    /\ \A k \in 1..Len(image_clips) :
           /\ image_clips[k].src \in 1..Len(image_paths)
           /\ image_clips[k].path = image_paths[image_clips[k].src]
    /\ \A k, l \in 1..Len(image_clips) :
           k < l => image_clips[k].src < image_clips[l].src
    /\ LoadingDone =>
           \A i \in 1..Len(image_paths) :
               Loads(image_paths[i]) =>
                   \E k \in 1..Len(image_clips) : image_clips[k].src = i

\* C11 witness: a video was returned for a list that names one path twice
\* around another, and has three clips
C11_Witness ==
    /\ result = "return output_path"
    /\ Len(image_paths) = 3
    /\ image_paths[1] = image_paths[3]
    /\ image_paths[1] # image_paths[2]
    /\ Len(image_clips) = 3

\* C12: every clip of the sequence has a duration greater than 0, whatever
\* the duration policy.
C12_PositiveDurations ==
    \A k \in 1..Len(image_clips) : image_clips[k].duration > 0

\* C13: the per-image duration is resolved only after the images are loaded,
\* and the audio is bound only after the duration is resolved.
C13_LoadResolveBind ==
    [][/\ duration_per_image' # duration_per_image => LoadingDone
       /\ (~Reconciled /\ Reconciled') =>
              (LoadingDone /\ duration_per_image.kind = "fixed")]_vars

\* the stage a pipeline run is in, read off the positions of the pipeline,
\* of create_slideshow and of add_text_overlay; a finished or failed
\* procedure stays in the last stage it started
SlideshowStage ==
    IF pc \in {"write_videofile", "cleanup"} \/ file_written # "no"
          \/ failed_at = "write_videofile" \/ result = "return output_path"
    THEN "encode"
    ELSE IF pc = "reconcile" \/ failed_at = "reconcile"
    THEN "reconcile audio"
    ELSE "sequence clips"

OverlayStage ==
    IF ov_pc = "write_with_text" \/ ov_file_written # "no"
          \/ ov_failed_at = "write_with_text"
    THEN "encode captions"
    ELSE "captions"

Stage ==
    IF ov_pc # "idle" THEN OverlayStage
    ELSE IF pl_pc = "captions" \/ (pl_pc = "done" /\ add_text
                                     /\ pl_video_path # "unset")
    THEN "captions"
    ELSE IF pc # "idle" THEN SlideshowStage
    ELSE IF pl_pc \in {"check_audio", "transcribe"} THEN "transcribe"
    ELSE IF pl_pc = "derive_prompts" THEN "derive prompts"
    ELSE "generate images"

\* the order of the stages as the code runs them, and as it is claimed
ActualOrder ==
    <<"transcribe", "derive prompts", "generate images", "sequence clips",
      "reconcile audio", "encode", "captions", "encode captions">>

ClaimedOrder ==
    <<"transcribe", "derive prompts", "generate images", "sequence clips",
      "reconcile audio", "captions", "encode">>

Rank(stage, order) == CHOOSE i \in 1..Len(order) : order[i] = stage

\* writing the captioned file is an encoding too
ClaimedStage == IF Stage = "encode captions" THEN "encode" ELSE Stage

\* a procedure is running only while its caller waits for it, and only
\* after the procedure before it has returned
OneStageAtATime ==
    /\ pc \notin {"idle", "done"} => pl_pc = "await_slideshow"
    /\ pc # "idle" => pl_image_paths # <<>> /\ image_paths = pl_image_paths
    /\ ov_pc \notin {"idle", "done"} => pl_pc = "await_overlay"
    /\ ov_pc # "idle" =>
           /\ pc = "done"
           /\ result = "return output_path"
           /\ file_written = "complete"
    /\ pl_pc \in {"derive_prompts", "generate_images"} =>
           transcript = "lyrics"

\* C14 (as claimed): the stages run in the order transcribe, derive prompts,
\* generate images, sequence clips, reconcile audio, captions, encode: a run
\* never goes back from encoding to captions.
C14_ClaimedOrderKept ==
    [][Rank(ClaimedStage', ClaimedOrder) >= Rank(ClaimedStage, ClaimedOrder)]_vars

\* C14: the stages run in the order transcribe, derive prompts, generate
\* images, sequence clips, reconcile audio, encode the slideshow, captions
\* on the encoded slideshow, encode the captioned video; no stage starts
\* before the one before it has completed.
C14_ActualOrderKept ==
    [][/\ Rank(Stage', ActualOrder) >= Rank(Stage, ActualOrder)
       /\ OneStageAtATime']_vars

\* a run with captions went through every stage
C14_Witness ==
    /\ pl_pc = "done"
    /\ transcript = "lyrics"
    /\ pl_result = "return video_path"
    /\ pl_video_path = "with_text.mp4"
    /\ Stage = "encode captions"

\* C15: create_slideshow and the pipeline return a path only of a file
\* whose encoding ran to completion, and return None (or raise) and no path
\* when a step of the run failed.
C15_NoPartialResult ==
    /\ result = "return output_path" =>
           file_written = "complete" /\ failed_at = "nowhere"
    /\ (pc = "done" /\ (failed_at # "nowhere" \/ file_written # "complete")) =>
           result \in {"return None"} \cup Raises
    /\ pl_result = "return video_path" =>
           /\ result = "return output_path"
           /\ file_written = "complete"
           /\ pl_video_path \in {"slideshow.mp4", "with_text.mp4"}
           /\ pl_video_path = "with_text.mp4" =>
                  ov_file_written = "complete" /\ ov_failed_at = "nowhere"
    /\ (pl_pc = "done" /\ (pl_image_paths = <<>>
                             \/ result # "return output_path")) =>
           pl_result = "return None"
    /\ pl_pc = "done" => pl_result \in {"return video_path", "return None"}
    /\ pl_result = "return None" => pl_video_path = "unset"

\* the encoder failed half way through the slideshow and the pipeline
\* reported failure
C15_Witness ==
    /\ pl_pc = "done"
    /\ file_written = "partial"
    /\ failed_at = "write_videofile"
    /\ result = "return None"
    /\ pl_result = "return None"

\* C16: when the audio file is missing the run halts at the detection: no
\* default prompts, no image generation, no clip sequencing, and the run
\* returns failure.
C16_MissingAudioHalts ==
    ~AudioExists(audio_path) =>
        /\ pl_pc \in {"check_audio", "done"}
        /\ pl_image_paths = <<>>
        /\ pc = "idle"
        /\ pl_pc = "done" => pl_result = "return None"

\* the start time a segment asks for
AskedStart(info) == IF "start_time" \in DOMAIN info THEN info.start_time ELSE 0

\* the segments that start at or after the end of the video
StartsAfterEnd(info) == AskedStart(info) >= video_file_duration

\* text_list without the segments that start at or after the end of the video
InRange == SelectSeq(text_list, LAMBDA info : ~StartsAfterEnd(info))

\* the place in InRange of the segment at place i of text_list
InRangeIndex(i) == Cardinality({j \in 1..i : ~StartsAfterEnd(text_list[j])})

\* the time left in the video from the start of a segment
TimeLeft(info) == video_file_duration - AskedStart(info)

\* the duration a segment is rendered with
EffectiveDuration(info) ==
    IF "duration" \in DOMAIN info /\ info.duration < TimeLeft(info)
    THEN info.duration
    ELSE TimeLeft(info)

\* C17: no segment that starts at or after the end of the video is rendered,
\* and every rendered segment has the text, start and effective duration it
\* has in the list without the dropped segments.
C17_DroppedLeavesRest ==
    \A k \in 1..Len(text_clips) :
        LET i == text_clips[k].src IN
            /\ ~StartsAfterEnd(text_list[i])
            /\ LET info == InRange[InRangeIndex(i)] IN
                   /\ text_clips[k].text = info.text
                   /\ text_clips[k].start = AskedStart(info)
                   /\ text_clips[k].duration = EffectiveDuration(info)

\* C17 witness: the first of two segments starts at the end of the video,
\* the second is rendered into the captioned video
C17_Witness ==
    /\ ov_result = "return output_path"
    /\ Len(text_list) = 2
    /\ AskedStart(text_list[1]) = video_file_duration
    /\ Len(text_clips) = 1
    /\ text_clips[1].src = 2

\* C18: every rendered segment lies inside the video: 0 <= start < duration
\* of the video, its effective duration is min(duration, time left), and it
\* ends by the end of the video.
C18_InsideVideo ==
    \A k \in 1..Len(text_clips) :
        LET info == text_list[text_clips[k].src] IN
            /\ 0 <= text_clips[k].start
            /\ text_clips[k].start < video_file_duration
            /\ text_clips[k].duration = EffectiveDuration(info)
            /\ text_clips[k].start + text_clips[k].duration <= video_file_duration

\* no caption rendered: the list is empty, or the loop of line 238 ended with
\* no clip
NoCaptionRenders ==
    /\ ov_pc = "done"
    /\ \/ text_list = <<>>
       \/ text_idx > Len(text_list) /\ text_clips = <<>>

\* C19 as stated: when no caption renders add_text_overlay returns the path
\* of the input video, writes no file and signals no failure.
C19_Unmodified ==
    NoCaptionRenders =>
        /\ ov_result = "return video_path"
        /\ ov_file_written = "no"

\* C19 amended: when the video path exists and no caption renders,
\* add_text_overlay returns the path of the input video, writes no file and
\* signals no failure.
C19_UnmodifiedIfExists ==
    (VideoExists(video_path) /\ NoCaptionRenders) =>
        /\ ov_result = "return video_path"
        /\ ov_file_written = "no"

\* C19 witness: two segments, the first starts after the end of the video,
\* the text clip of the second could not be made
C19_Witness ==
    /\ NoCaptionRenders
    /\ Len(text_list) = 2
    /\ StartsAfterEnd(text_list[1])
    /\ ~StartsAfterEnd(text_list[2])
    /\ ov_result = "return video_path"

\* C20: with a video path that does not exist add_text_overlay raises the
\* not-found error to its caller, with an empty segment list too, and opens
\* nothing.
C20_MissingVideoRaises ==
    ~VideoExists(video_path) =>
        /\ ov_opened = {}
        /\ ov_file_written = "no"
        /\ ov_pc = "done" => ov_result = "raise FileNotFoundError"

\* C20 witness: a call with a missing video and an empty list has raised
C20_Witness ==
    /\ ~VideoExists(video_path)
    /\ text_list = <<>>
    /\ ov_pc = "done"
    /\ ov_result = "raise FileNotFoundError"

\* C21: a step of the caption loop never leaves the loop and never signals
\* failure: the clips rendered so far are kept, a caption whose preferred
\* font is unavailable is rendered with the default font at the same text,
\* start and duration, and add_text_overlay returns None only for a failure
\* outside the loop.
C21_FontFallback ==
    [][/\ (ov_pc = "add_texts" /\ text_idx <= Len(text_list)) =>
              /\ ov_pc' = "add_texts"
              /\ text_idx' = text_idx + 1
              /\ ov_failed_at' = ov_failed_at
              /\ ov_result' = "pending"
              /\ Len(text_clips') >= Len(text_clips)
              /\ SubSeq(text_clips', 1, Len(text_clips)) = text_clips
              /\ Len(text_clips') > Len(text_clips) =>
                     LET clip == text_clips'[Len(text_clips')]
                         info == text_list[text_idx]
                     IN  /\ Len(text_clips') = Len(text_clips) + 1
                         /\ clip.font \in {"SimHei", "default"}
                         /\ clip.src = text_idx
                         /\ clip.text = info.text
                         /\ clip.start = AskedStart(info)
                         /\ clip.duration = EffectiveDuration(info)
       /\ ov_result' = "return None" =>
              ov_failed_at' \in {"load_video", "compose", "write_with_text"}
      ]_vars

\* of two segments inside the video one failed and the other was rendered
\* with the default font into the captioned video
C21_Witness ==
    /\ ov_result = "return output_path"
    /\ ov_file_written = "complete"
    /\ Len(text_list) = 2
    /\ \A i \in 1..2 : ~StartsAfterEnd(text_list[i])
    /\ Len(text_clips) = 1
    /\ text_clips[1].font = "default"

\* the duration create_slideshow_with_beat hands to create_slideshow
BeatSyncedDuration == policy.value

\* C22: the per-image duration passed on by create_slideshow_with_beat lies
\* in [1, 8] seconds: twice the mean beat interval clamped into that
\* interval when beats were found, 4 seconds when fewer than two beats were
\* found, the analyzer is missing or the analysis failed.
C22_BeatDurationClamped ==
    (use_beat_sync /\ pc # "idle") =>
        /\ policy.kind = "fixed"
        /\ duration_per_image.kind = "fixed"
        /\ duration_per_image.value = BeatSyncedDuration
        /\ BeatSyncedDuration >= 1 * Scale
        /\ BeatSyncedDuration <= 8 * Scale
        /\ beat_outcome.kind \in
               {"beats", "few beats", "ImportError", "Exception"}
        /\ beat_outcome.kind # "beats" => BeatSyncedDuration = 4 * Scale
        /\ beat_outcome.kind = "beats" =>
               LET twice == beat_outcome.interval + beat_outcome.interval IN
                   /\ twice < 1 * Scale => BeatSyncedDuration = 1 * Scale
                   /\ twice > 8 * Scale => BeatSyncedDuration = 8 * Scale
                   /\ (twice >= 1 * Scale /\ twice <= 8 * Scale) =>
                          BeatSyncedDuration = twice

\* a beat-synced run returned its video with a mean beat interval that the
\* clamp changed
C22_Witness ==
    /\ use_beat_sync
    /\ pl_result = "return video_path"
    /\ \/ beat_outcome.kind = "beats" /\ BeatSyncedDuration = 8 * Scale
       \/ beat_outcome.kind = "beats" /\ BeatSyncedDuration = 1 * Scale

\* the places of prompt_results where generate_image gave a path
Succeeded == {i \in 1..Len(prompt_results) : prompt_results[i] # "None"}

\* C24: the batch tries every prompt and returns exactly the paths of the
\* prompts that succeeded, in prompt order: k failures among m prompts
\* give m - k paths; with at least one path the pipeline goes on to the
\* video and does not fail for want of images.
C24_FailedPromptSkipped ==
    pl_pc \notin {"check_audio", "transcribe", "derive_prompts",
                  "generate_images", "default_images", "fallback_images",
                  "rescue_images"} =>
        /\ Len(prompt_results) \in
               {max_images, Min(DefaultKeywordCount, max_images),
                Min(FallbackKeywordCount, max_images)}
        /\ Len(pl_image_paths) = Cardinality(Succeeded)
        /\ Len(pl_image_paths) =
               Len(prompt_results)
                   - Cardinality({i \in 1..Len(prompt_results) :
                                     prompt_results[i] = "None"})
        /\ \A i \in Succeeded :
               pl_image_paths[Cardinality({j \in Succeeded : j <= i})]
                   = prompt_results[i]
        /\ (Succeeded # {} /\ pl_pc # "create_video") => pc # "idle"
        /\ (Succeeded # {} /\ pl_result = "return None") =>
               result # "return output_path"

\* the first of two prompts failed, the second gave the only image and the
\* run returned its video
C24_Witness ==
    /\ Len(prompt_results) = 2
    /\ prompt_results[1] = "None"
    /\ prompt_results[2] = "a.png"
    /\ pl_image_paths = <<"a.png">>
    /\ pl_result = "return video_path"

\* C23: with no output filename given, the output path of a run differs
\* from the path of the video an earlier run on the same audio file left,
\* so that video is not overwritten.
C23_FreshDefaultName ==
    (output_filename = "None" /\ output_path # NoPath) =>
        \A v \in videos : v.by = "earlier run" => v.path # output_path

\* C25: an empty transcription does not end the run: when transcribe_audio
\* returned empty text and no exception was raised, the caller goes on with
\* defaults and does not return None.
C25_EmptyTextSoft ==
    (m_text = "" /\ m_failed = "nowhere") => m_result # "return None"

\* C26: the process exits with status 0 exactly when the run produced a
\* video path.
C26_ExitCodeTellsResult ==
    exit_code # "running" =>
        (exit_code = "0" <=> m_result = "return video_path")

\* C27: process_audio_to_video returns None only when transcription,
\* sentence splitting, image generation or video composition failed; its
\* call of create_slideshow is accepted.
C27_PathWhenStepsSucceed ==
    /\ m_call # "rejected"
    /\ (m_result = "return None" /\ m_text = "lyrics" /\ m_sentences > 0
           /\ m_image_paths # <<>>) => m_call = "accepted"

\* C28: _generate_images leaves IMAGE_CONFIG["max_images"] as it found it,
\* whether it returns or raises and whether or not the key had a value.
C28_ConfigRestored ==
    [][m_pc = "generate_images" => image_config' = image_config]_vars

\* C29: the caption built for an image covers the window in which the
\* slideshow shows that image: it starts where the clip of the image
\* starts and lasts as long as the clip, in every duration mode and when
\* images were skipped.
C29_CaptionMatchesImage ==
    ov_pc # "idle" =>
        \A k \in 1..Len(image_clips) :
            LET i == image_clips[k].src IN
                /\ text_list[i].start_time = (k - 1) * duration_per_image.value
                /\ text_list[i].duration = image_clips[k].duration

\* C30: once create_slideshow has returned a path the pipeline returns a
\* path: the path of the slideshow when there is no transcript file, when
\* the caption step raised, or when add_text_overlay returned None or the
\* path it was given.
C30_CaptionFailureSoft ==
    (pl_pc = "done" /\ result = "return output_path") =>
        /\ pl_result = "return video_path"
        /\ pl_video_path \in {"slideshow.mp4", "with_text.mp4"}
        /\ pl_video_path = "with_text.mp4" <=>
               (ov_pc = "done" /\ ov_result = "return output_path")
        /\ (add_text /\ transcript_file = "none") =>
               ov_pc = "idle" /\ pl_video_path = "slideshow.mp4"

\* add_text_overlay failed while writing the captioned file and returned
\* None; the pipeline returned the slideshow
C30_Witness ==
    /\ pl_pc = "done"
    /\ add_text
    /\ ov_failed_at = "write_with_text"
    /\ ov_result = "return None"
    /\ pl_result = "return video_path"
    /\ pl_video_path = "slideshow.mp4"

====
